---- MODULE Spec2Model ----
(***************************************************************************)
(* Model of the streaming multipart/form-data decoder of upload.c.         *)
(*                                                                         *)
(* A byte is a string.  The bytes CR, LF, NUL and the delimiters of the    *)
(* header grammar (":", " ", ";", "=", the double quote) are single bytes; *)
(* a keyword of the header grammar ("Content-Disposition", "name", ...)    *)
(* is carried as one symbol, because the decoder never looks inside one    *)
(* before the line that holds it is complete.  A C string is a sequence    *)
(* of bytes; the null pointer is the value Null.                           *)
(***************************************************************************)
EXTENDS Integers, Sequences, FiniteSets, TLC

CR == "CR"
LF == "LF"
NUL == "NUL"
QUOTE == "QUOTE"
Null == <<"(null)">>

(***************************************************************************)
(* Upload states, upload.c:16-20, and the HTTP codes given to websError.   *)
(***************************************************************************)
HTTP_UPLOAD_REQUEST_HEADER == 1
HTTP_UPLOAD_BOUNDARY == 2
HTTP_UPLOAD_CONTENT_HEADER == 3
HTTP_UPLOAD_CONTENT_DATA == 4
HTTP_UPLOAD_CONTENT_END == 5

HTTP_CODE_BAD_REQUEST == "HTTP_CODE_BAD_REQUEST"
HTTP_CODE_REQUEST_TOO_LARGE == "HTTP_CODE_REQUEST_TOO_LARGE"
HTTP_CODE_INTERNAL_SERVER_ERROR == "HTTP_CODE_INTERNAL_SERVER_ERROR"

(* wp's response before websError has been called. *)
NoError == "none"

(* The ceiling on one uploaded file, scaled down to the payloads of the model. *)
BIT_LIMIT_UPLOAD == 3

(***************************************************************************)
(* Bounds of the model.                                                    *)
(***************************************************************************)
MaxPayload == 2

(* Deliveries the caller still makes once an error has been reported or the
   terminating marker has been read. *)
MaxAfterError == 1

(***************************************************************************)
(* C string primitives.                                                    *)
(***************************************************************************)
Min(S) == CHOOSE x \in S : \A y \in S : x <= y

Drop(s, n) == SubSeq(s, n + 1, Len(s))

Take(s, n) == SubSeq(s, 1, IF n < Len(s) THEN n ELSE Len(s))

(* First index >= from whose byte is in set, 0 when there is none (strpbrk). *)
FirstIn(s, from, set) ==
    LET I == {i \in from..Len(s) : s[i] \in set}
    IN  IF I = {} THEN 0 ELSE Min(I)

(* First index >= from whose byte is not in set, Len(s)+1 when there is none (strspn). *)
FirstNotIn(s, from, set) ==
    LET I == {i \in from..Len(s) : s[i] \notin set}
    IN  IF I = {} THEN Len(s) + 1 ELSE Min(I)

(* The C string that starts at the first byte of s: the bytes before the first NUL. *)
CStr(s) ==
    LET z == FirstIn(s, 1, {NUL})
    IN  IF z = 0 THEN s ELSE Take(s, z - 1)

(* gtok(str, delim, &last): skip leading delimiters, cut the token at the first
   delimiter (a NUL is written at index term), skip the delimiters that follow.
   tok is the token (Null: none), last the index of *last in str (0: null). *)
gtok(str, delim) ==
    LET s == CStr(str)
        start == FirstNotIn(s, 1, delim)
    IN  IF start > Len(s)
        THEN [tok |-> Null, term |-> 0, last |-> 0]
        ELSE LET e == FirstIn(s, start, delim)
             IN  IF e = 0
                 THEN [tok |-> SubSeq(s, start, Len(s)), term |-> 0, last |-> 0]
                 ELSE [tok |-> SubSeq(s, start, e - 1), term |-> e,
                       last |-> FirstNotIn(s, e + 1, delim)]

(* The string the pointer str names once gtok has written its NUL. *)
AfterTok(str, t) == IF t.term = 0 THEN CStr(str) ELSE Take(str, t.term - 1)

(* The string *last names after gtok, Null for a null pointer. *)
RestTok(str, t) == IF t.last = 0 THEN Null ELSE Drop(CStr(str), t.last - 1)

RECURSIVE TrimEnd(_, _)
TrimEnd(s, set) ==
    IF Len(s) > 0 /\ s[Len(s)] \in set THEN TrimEnd(Take(s, Len(s) - 1), set) ELSE s

(* gtrim(str, set, WEBS_TRIM_BOTH) *)
gtrim(str, set) ==
    IF str = Null THEN Null
    ELSE TrimEnd(Drop(str, FirstNotIn(str, 1, set) - 1), set)

gstrdup(s) == s

Lower(c) ==
    CASE c = "CONTENT-DISPOSITION" -> "content-disposition"
      [] c = "Content-Disposition" -> "content-disposition"
      [] c = "Content-Type" -> "content-type"
      [] c = "Form-Data" -> "form-data"
      [] c = "Name" -> "name"
      [] c = "FILENAME" -> "filename"
      [] OTHER -> c

(* gcaselesscmp(a, b) == 0 *)
gcaselesseq(a, b) ==
    /\ a # Null
    /\ Len(a) = Len(b)
    /\ \A i \in 1..Len(a) : Lower(a[i]) = Lower(b[i])

(* gstritoa: the decimal digits of n. *)
Digit(d) == CASE d = 0 -> "0" [] d = 1 -> "1" [] d = 2 -> "2" [] d = 3 -> "3"
              [] d = 4 -> "4" [] d = 5 -> "5" [] d = 6 -> "6" [] d = 7 -> "7"
              [] d = 8 -> "8" [] d = 9 -> "9"

RECURSIVE Digits(_)
Digits(n) == IF n < 10 THEN <<Digit(n)>> ELSE Digits(n \div 10) \o <<Digit(n % 10)>>

gstritoa(n) == IF n < 0 THEN <<"-">> \o Digits(0 - n) ELSE Digits(n)


(***************************************************************************)
(* The session (Webs *wp), the process's heap, descriptors and disk (os),  *)
(* the request body and how much of it has arrived, and the position of    *)
(* the driver.                                                             *)
(***************************************************************************)
VARIABLES wp, os, parts, body, sent, pc, rc, after, nominal, straddled

vars == <<wp, os, parts, body, sent, pc, rc, after, nominal, straddled>>

(* What galloc can return for the fields upload.c:221-223 never sets: the
   block is not cleared, so size and contentType hold whatever was there. *)
Garbage == <<"(garbage)">>

AllocImages ==
    { [size |-> 0, contentType |-> Null],
      [size |-> 0 - 1, contentType |-> Garbage],
      [size |-> BIT_LIMIT_UPLOAD + 1, contentType |-> Garbage] }

(* The environment's answers during one step: the image galloc returns, whether
   tempnam and gopen succeed, and what gwrite does. *)
Envs ==
    [alloc : AllocImages, tempnam : BOOLEAN, open : BOOLEAN, write : {"ok", "fail", "short"}]

NominalEnv ==
    [alloc |-> [size |-> 0, contentType |-> Null], tempnam |-> TRUE, open |-> TRUE,
     write |-> "ok"]

(* The answers a pass in upload state st can ask for: only header lines reach
   galloc, tempnam and gopen, only part data reaches gwrite. *)
EnvsOf(st) ==
    IF st = HTTP_UPLOAD_CONTENT_HEADER THEN {e \in Envs : e.write = "ok"}
    ELSE IF st = HTTP_UPLOAD_CONTENT_DATA
    THEN {e \in Envs : e.alloc = NominalEnv.alloc /\ e.tempnam /\ e.open}
    ELSE {NominalEnv}

(* A variable map or symbol table: a set of [k, v] with at most one entry per key. *)
SetEntry(map, k, v) == {e \in map : e.k # k} \cup {[k |-> k, v |-> v]}

HasKey(map, k) == \E e \in map : e.k = k

Lookup(map, k) == (CHOOSE e \in map : e.k = k).v

websSetVar(m, k, v) ==
    IF k = Null
    THEN [m EXCEPT !.os.fault = "nullderef"]
    ELSE [m EXCEPT !.wp.vars = SetEntry(@, k, v)]

websError(m, code) == [m EXCEPT !.wp.error = code]

PathName(n) == <<"tmp">> \o gstritoa(n)

FdValid(o, fd) == fd \in 1..Len(o.fds) /\ o.fds[fd].open

gclose(m, fd) ==
    IF fd \in 1..Len(m.os.fds)
    THEN [m EXCEPT !.os.fds[fd].open = FALSE, !.os.fds[fd].closes = @ + 1]
    ELSE m

(* ringqGetBlkAdj(&wp->input, n): the read pointer servp moves n bytes on; the
   bytes behind it stay in the ring until it is compacted. *)
ringqGetBlkAdj(m, n) == [m EXCEPT !.wp.input = Drop(@, n), !.wp.servp = @ + n]

(***************************************************************************)
(* getBoundary, upload.c:372-397: index of the leftmost occurrence of the  *)
(* marker in buf[1..bufLen], 0 when there is none.                         *)
(***************************************************************************)
RECURSIVE ScanBoundary(_, _, _, _)
ScanBoundary(boundary, buf, cp, endp) ==
    IF cp >= endp THEN 0
    ELSE LET c == FirstIn(Take(buf, endp - 1), cp, {boundary[1]})
         IN  IF c = 0 THEN 0
             ELSE IF SubSeq(buf, c, c + Len(boundary) - 1) = boundary THEN c
             ELSE ScanBoundary(boundary, buf, c + 1, endp)

getBoundary(w, buf, bufLen) ==
    IF bufLen < w.boundaryLen THEN 0
    ELSE ScanBoundary(w.boundary, buf, 1, (bufLen - w.boundaryLen) + 2)

(***************************************************************************)
(* processContentBoundary, upload.c:137-152.                               *)
(***************************************************************************)
processContentBoundaryNoHeader(m, line) ==
    IF Take(line, m.wp.boundaryLen) # m.wp.boundary
    THEN [websError(m, HTTP_CODE_BAD_REQUEST) EXCEPT !.rc = 0 - 1]
    ELSE IF Len(line) > m.wp.boundaryLen /\ Drop(line, m.wp.boundaryLen) = <<"-", "-">>
         THEN [m EXCEPT !.wp.uploadState = HTTP_UPLOAD_CONTENT_END, !.rc = 0]
         ELSE [m EXCEPT !.wp.uploadState = HTTP_UPLOAD_CONTENT_DATA, !.rc = 0]

processContentBoundarySkipsLine(m, line) ==
    IF Take(line, m.wp.boundaryLen) # m.wp.boundary
    THEN [m EXCEPT !.rc = 0]
    ELSE IF Len(line) > m.wp.boundaryLen /\ Drop(line, m.wp.boundaryLen) = <<"-", "-">>
         THEN [m EXCEPT !.wp.uploadState = HTTP_UPLOAD_CONTENT_END, !.rc = 0]
         ELSE [m EXCEPT !.wp.uploadState = HTTP_UPLOAD_CONTENT_HEADER, !.rc = 0]

processContentBoundary(m, line) ==
    IF Take(line, m.wp.boundaryLen) # m.wp.boundary
    THEN [websError(m, HTTP_CODE_BAD_REQUEST) EXCEPT !.rc = 0 - 1]
    ELSE IF Len(line) > m.wp.boundaryLen /\ Drop(line, m.wp.boundaryLen) = <<"-", "-">>
         THEN [m EXCEPT !.wp.uploadState = HTTP_UPLOAD_CONTENT_END, !.rc = 0]
         ELSE [m EXCEPT !.wp.uploadState = HTTP_UPLOAD_CONTENT_HEADER, !.rc = 0]

(***************************************************************************)
(* The filename attribute of processUploadHeader, upload.c:198-224.        *)
(***************************************************************************)
(* upload.c:203-223: the temp file and the file record. *)
CreateUploadFile(m, value, n, env) ==
    IF ~env.tempnam
    THEN [websError([m EXCEPT !.wp.clientFilename = gstrdup(value), !.wp.tmpPath = Null],
                    HTTP_CODE_INTERNAL_SERVER_ERROR) EXCEPT !.rc = 0 - 1]
    ELSE IF ~env.open
    THEN [websError([m EXCEPT !.wp.clientFilename = gstrdup(value),
                              !.wp.tmpPath = PathName(n), !.os.npaths = n,
                              !.os.disk = Append(@, <<"(absent)">>),
                              !.wp.ufd = 0 - 1],
                    HTTP_CODE_INTERNAL_SERVER_ERROR) EXCEPT !.rc = 0 - 1]
    ELSE [m EXCEPT
            !.wp.clientFilename = gstrdup(value),
            !.wp.tmpPath = PathName(n),
            !.os.npaths = n,
            !.os.disk = Append(@, <<>>),
            !.wp.ufd = Len(m.os.fds) + 1,
            !.os.fds = Append(@, [path |-> n, open |-> TRUE, closes |-> 0]),
            !.wp.currentFile = Len(m.os.recs) + 1,
            !.os.recs = Append(@, [clientFilename |-> gstrdup(value),
                                   filename |-> gstrdup(PathName(n)),
                                   contentType |-> env.alloc.contentType,
                                   size |-> env.alloc.size]),
            !.rc = 1]

OpenUploadFileThenCheck(m, value, env) ==
    IF m.wp.id = Null
    THEN [websError(CreateUploadFile(m, value, m.os.npaths + 1, env),
                    HTTP_CODE_BAD_REQUEST) EXCEPT !.rc = 0 - 1]
    ELSE CreateUploadFile(m, value, m.os.npaths + 1, env)

OpenUploadFile(m, value, env) ==
    IF m.wp.id = Null
    THEN [websError(m, HTTP_CODE_BAD_REQUEST) EXCEPT !.rc = 0 - 1]
    ELSE CreateUploadFile(m, value, m.os.npaths + 1, env)

(* One attribute of a Content-Disposition line, upload.c:188-225: key is the
   trimmed attribute with gtok's NUL at its first "=" or " ", value what follows. *)
Attribute(m, key, value, env) ==
    IF gcaselesseq(key, <<"form-data">>) THEN [m EXCEPT !.rc = 1]
    ELSE IF gcaselesseq(key, <<"name">>) THEN [m EXCEPT !.wp.id = gstrdup(value), !.rc = 1]
    ELSE IF gcaselesseq(key, <<"filename">>) THEN OpenUploadFile(m, value, env)
    ELSE [m EXCEPT !.rc = 1]

SplitAttribute(m, key, q, env) ==
    Attribute(m, AfterTok(key, q), gtrim(RestTok(key, q), {QUOTE}), env)

TrimmedAttribute(m, key, env) == SplitAttribute(m, key, gtok(key, {"=", " "}), env)

(* The attribute loop of a Content-Disposition line, upload.c:186-226. *)
RECURSIVE ParseDisposition(_, _, _)
NextAttribute(r, nextPair, env) ==
    IF r.rc < 0 THEN r ELSE ParseDisposition(r, nextPair, env)

CutAttribute(m, key, p, env) ==
    IF p.tok = Null THEN [m EXCEPT !.rc = 1]
    ELSE NextAttribute(TrimmedAttribute(m, gtrim(AfterTok(key, p), {" "}), env),
                       RestTok(key, p), env)

ParseDisposition(m, key, env) ==
    IF key = Null THEN [m EXCEPT !.rc = 1]
    ELSE CutAttribute(m, key, gtok(key, {";", CR, LF}), env)

(***************************************************************************)
(* processUploadHeader, upload.c:155-235.                                  *)
(***************************************************************************)
HeaderLine(m, headerTok, rest, env) ==
    IF gcaselesseq(headerTok, <<"Content-Disposition">>)
    THEN ParseDisposition([m EXCEPT !.wp.id = Null, !.wp.clientFilename = Null], rest, env)
    ELSE IF gcaselesseq(headerTok, <<"Content-Type">>) /\ m.wp.clientFilename # Null
    THEN IF m.wp.currentFile = 0
         THEN [m EXCEPT !.os.fault = "nullderef", !.rc = 1]
         ELSE [m EXCEPT !.os.recs[m.wp.currentFile].contentType = gstrdup(rest), !.rc = 1]
    ELSE [m EXCEPT !.rc = 1]

SplitHeader(m, line, t, env) == HeaderLine(m, AfterTok(line, t), RestTok(line, t), env)

processUploadHeader(m, line, env) ==
    IF line = <<>>
    THEN [m EXCEPT !.wp.uploadState = HTTP_UPLOAD_CONTENT_DATA, !.rc = 0]
    ELSE SplitHeader(m, line, gtok(line, {":", " "}), env)

(***************************************************************************)
(* defineUploadVars, upload.c:238-256.                                     *)
(***************************************************************************)
defineUploadVars(m) ==
    LET file == m.os.recs[m.wp.currentFile]
        m1 == websSetVar(m, <<"FILE_CLIENT_FILENAME_">> \o m.wp.id, file.clientFilename)
        m2 == websSetVar(m1, <<"FILE_CONTENT_TYPE_">> \o m.wp.id, file.contentType)
        m3 == websSetVar(m2, <<"FILE_FILENAME_">> \o m.wp.id, file.filename)
    IN  websSetVar(m3, <<"FILE_SIZE_">> \o m.wp.id, gstritoa(file.size))

(***************************************************************************)
(* writeToFile, upload.c:259-282.                                          *)
(***************************************************************************)
writeToFile(m, data, len, env) ==
    IF m.wp.currentFile = 0
    THEN [m EXCEPT !.os.fault = "nullderef", !.rc = 0 - 1]
    ELSE LET file == m.os.recs[m.wp.currentFile] IN
         IF (file.size + len) > BIT_LIMIT_UPLOAD
         THEN [websError(m, HTTP_CODE_REQUEST_TOO_LARGE) EXCEPT !.rc = 0 - 1]
         ELSE IF len > 0
         THEN IF FdValid(m.os, m.wp.ufd) /\ env.write = "ok"
              THEN [m EXCEPT !.os.disk[m.os.fds[m.wp.ufd].path] = @ \o Take(data, len),
                             !.os.recs[m.wp.currentFile].size = @ + len,
                             !.rc = 0]
              ELSE IF FdValid(m.os, m.wp.ufd) /\ env.write = "short"
              THEN [websError([m EXCEPT !.os.disk[m.os.fds[m.wp.ufd].path] =
                                            @ \o Take(data, len - 1)],
                              HTTP_CODE_INTERNAL_SERVER_ERROR) EXCEPT !.rc = 0 - 1]
              ELSE [websError(m, HTTP_CODE_INTERNAL_SERVER_ERROR) EXCEPT !.rc = 0 - 1]
         ELSE [m EXCEPT !.rc = 0]


(***************************************************************************)
(* processContentData, upload.c:291-366.                                   *)
(***************************************************************************)
(* upload.c:356-365: the marker has been seen; close the file of a file part. *)
EndOfPart(m) ==
    IF m.os.fault # "none" THEN [m EXCEPT !.rc = 0 - 1]
    ELSE IF m.wp.clientFilename # Null
    THEN [gclose(m, m.wp.ufd) EXCEPT !.wp.ufd = 0 - 1, !.wp.clientFilename = Null,
                                     !.wp.uploadState = HTTP_UPLOAD_BOUNDARY, !.rc = 1]
    ELSE [m EXCEPT !.wp.uploadState = HTTP_UPLOAD_BOUNDARY, !.rc = 1]

(* upload.c:336-340: w is what writeToFile left. *)
PublishFile(w, file) ==
    IF w.rc < 0 THEN w
    ELSE EndOfPart(defineUploadVars([w EXCEPT !.wp.files = SetEntry(@, w.wp.id, file)]))

(* upload.c:346-353: data[dataLen] = '\0' lands on a consumed byte, or on the
   first byte still buffered when no CRLF was cut; then the field is stored. *)
PublishField(m, data, dataLen, cut) ==
    EndOfPart(websSetVar(IF ~cut /\ Len(m.wp.input) > 0
                         THEN [m EXCEPT !.wp.input[1] = NUL] ELSE m,
                         m.wp.id, CStr(Take(data, dataLen))))

(* upload.c:324-355: m has consumed data; cut tells whether a CRLF ends data. *)
PartData(m, data, dataLen, cut, env) ==
    IF m.wp.clientFilename # Null
    THEN PublishFile(writeToFile(m, data, dataLen, env), m.wp.currentFile)
    ELSE PublishField(m, data, dataLen, cut)

EndsInCRLF(data) ==
    Len(data) >= 2 /\ data[Len(data) - 1] = CR /\ data[Len(data)] = LF

(* upload.c:321-366: the part ends here (marker found, or no file is open). *)
FinishContentData(m, len0, env) ==
    IF len0 > 0
    THEN PartData(ringqGetBlkAdj(m, len0), Take(m.wp.input, len0),
                  IF EndsInCRLF(Take(m.wp.input, len0)) THEN len0 - 2 ELSE len0,
                  EndsInCRLF(Take(m.wp.input, len0)), env)
    ELSE EndOfPart(m)

(* upload.c:308-319: a file is open and no marker is in the window. *)
HoldBack(m, w, dataLen) ==
    IF dataLen > 0 /\ w.rc < 0 THEN w
    ELSE [ringqGetBlkAdj(IF dataLen > 0 THEN w ELSE m, dataLen) EXCEPT !.rc = 0]

ContentWindow(m, bp, env) ==
    IF bp = 0 /\ m.wp.clientFilename # Null
    THEN HoldBack(m, writeToFile(m, m.wp.input, Len(m.wp.input) - (m.wp.boundaryLen - 1), env),
                  Len(m.wp.input) - (m.wp.boundaryLen - 1))
    ELSE FinishContentData(m, IF bp # 0 THEN bp - 1 ELSE Len(m.wp.input), env)

processContentData(m, env) ==
    IF Len(m.wp.input) < m.wp.boundaryLen
    THEN [m EXCEPT !.rc = 0]
    ELSE ContentWindow(m, getBoundary(m.wp, m.wp.input, Len(m.wp.input)), env)

(***************************************************************************)
(* One pass of the loop of websProcessUploadData, upload.c:87-132.  done   *)
(* tells whether the loop is left after it.                                *)
(***************************************************************************)
StripCR(line) ==
    IF line[Len(line)] = CR THEN Take(line, Len(line) - 1) ELSE line

LineDone(r) == [r EXCEPT !.done = (r.rc < 0)]

DataDone(r) == [r EXCEPT !.done = (r.rc < 0) \/ (Len(r.wp.input) < r.wp.boundaryLen)]

(* upload.c:88-116: the next line, when one is complete. *)
LinePass(m, t, env) ==
    IF t.last = 0
    THEN [m EXCEPT !.done = TRUE]
    ELSE IF m.wp.uploadState = HTTP_UPLOAD_BOUNDARY
    THEN LineDone(processContentBoundary(ringqGetBlkAdj(m, t.last - 1),
                                         StripCR(AfterTok(m.wp.input, t))))
    ELSE LineDone(processUploadHeader(ringqGetBlkAdj(m, t.last - 1),
                                      StripCR(AfterTok(m.wp.input, t)), env))

LoopPassEndedReads(m, env) ==
    IF m.wp.uploadState \in {HTTP_UPLOAD_BOUNDARY, HTTP_UPLOAD_CONTENT_HEADER,
                             HTTP_UPLOAD_CONTENT_END}
    THEN LinePass(m, gtok(m.wp.input, {LF}), env)
    ELSE IF m.wp.uploadState = HTTP_UPLOAD_CONTENT_DATA
    THEN DataDone(processContentData(m, env))
    ELSE m

LoopPass(m, env) ==
    IF m.wp.uploadState \in {HTTP_UPLOAD_BOUNDARY, HTTP_UPLOAD_CONTENT_HEADER}
    THEN LinePass(m, gtok(m.wp.input, {LF}), env)
    ELSE IF m.wp.uploadState = HTTP_UPLOAD_CONTENT_DATA
    THEN DataDone(processContentData(m, env))
    ELSE IF m.wp.uploadState = HTTP_UPLOAD_CONTENT_END
    THEN [m EXCEPT !.done = TRUE]
    ELSE m

(* ringqCompact: moves the unread bytes to the front of the ring, which releases
   the bytes behind the read pointer; the unread bytes themselves are unchanged. *)
ringqCompact(w) == [w EXCEPT !.servp = 0]

Machine(w, o) == [wp |-> w, os |-> o, rc |-> 0, done |-> FALSE]


(***************************************************************************)
(* Request bodies.  A part is a header block and a payload; a body is the  *)
(* parts, each behind a marker line, closed by the terminating marker.     *)
(***************************************************************************)
Token == <<"X">>

Marker == <<"-", "-">> \o Token

CRLF == <<CR, LF>>

NameAttr(id) == <<"name", "=", QUOTE, id, QUOTE>>

FileAttr(f) == <<"filename", "=", QUOTE, f, QUOTE>>

Disposition(attrs) == <<"Content-Disposition", ":", " ", "form-data">> \o attrs

Sep == <<";", " ">>

TypeLine == <<"Content-Type", ":", " ", "text/plain">>

(* The header lines of a part of each kind. *)
HeaderLines(kind, id) ==
    CASE kind = "field" -> <<Disposition(Sep \o NameAttr(id))>>
      [] kind = "file" ->
            <<Disposition(Sep \o NameAttr(id) \o Sep \o FileAttr("x.txt")), TypeLine>>
      [] kind = "fileNoType" ->
            <<Disposition(Sep \o NameAttr(id) \o Sep \o FileAttr("x.txt"))>>
      [] kind = "noName" -> <<Disposition(Sep \o FileAttr("x.txt"))>>
      [] kind = "twoFilename" ->
            <<Disposition(Sep \o NameAttr(id) \o Sep \o FileAttr("x.txt")
                          \o Sep \o FileAttr("y.txt")), TypeLine>>
      [] kind = "twoDisposition" ->
            <<Disposition(Sep \o NameAttr(id) \o Sep \o FileAttr("x.txt")),
              Disposition(Sep \o NameAttr(id) \o Sep \o FileAttr("y.txt"))>>
      [] kind = "nameAfter" ->
            <<Disposition(Sep \o FileAttr("x.txt") \o Sep \o NameAttr(id))>>
      [] kind = "upperCase" ->
            << <<"CONTENT-DISPOSITION", ":", " ", "Form-Data">> \o Sep \o <<"Name">>
                   \o Tail(NameAttr(id)) \o Sep \o <<"FILENAME">> \o Tail(FileAttr("x.txt")),
               TypeLine >>
      [] kind = "noDisposition" -> <<TypeLine>>

RECURSIVE JoinLines(_)
JoinLines(lines) ==
    IF lines = <<>> THEN <<>> ELSE Head(lines) \o CRLF \o JoinLines(Tail(lines))

RenderPart(part) ==
    Marker \o CRLF \o JoinLines(HeaderLines(part.kind, part.id)) \o CRLF
        \o part.payload \o CRLF

RECURSIVE RenderParts(_)
RenderParts(ps) ==
    IF ps = <<>> THEN <<>> ELSE RenderPart(Head(ps)) \o RenderParts(Tail(ps))

Render(ps) == RenderParts(ps) \o Marker \o <<"-", "-">> \o CRLF

PayloadBytes == {"a", "-"}

Payloads == UNION {[1..n -> PayloadBytes] : n \in 0..MaxPayload}

ValidKinds == {"field", "file", "fileNoType"}

OddKinds ==
    {"noName", "nameAfter", "twoFilename", "twoDisposition", "noDisposition", "upperCase"}

Parts(kinds, ids, payloads) == [kind : kinds, id : ids, payload : payloads]

(* A payload whose first byte is a line feed. *)
LinePayloads == { <<LF, "a">> }

(* One part (a field or a file with any payload, a file without Content-Type,
   a payload that begins with a line feed, an ill-formed header block), or two
   parts. *)
BodyParts ==
    {<<p>> : p \in Parts({"field", "file"}, {"a"}, Payloads)}
    \cup {<<p>> : p \in Parts({"fileNoType"}, {"a"}, {<<>>, <<"a">>})}
    \cup {<<p>> : p \in Parts({"field", "file"}, {"a"}, LinePayloads)}
    \cup {<<p>> : p \in Parts(OddKinds, {"a"}, {<<"a">>})}
    \cup {<<p, q>> : p \in Parts({"field", "file"}, {"a"}, {<<"a">>}),
                     q \in Parts({"field", "file"}, {"a", "b"}, {<<"a">>})
                           \cup Parts({"noDisposition"}, {"b"}, {<<"a">>})}

(* What a client may send behind the terminating marker: nothing, or one more
   marker line. *)
Epilogues(ps) ==
    IF Len(ps) = 1 /\ ps[1].kind \in {"field", "file"} /\ ps[1].payload = <<"a">>
    THEN {<<>>, Marker \o CRLF}
    ELSE {<<>>}

(* What a client may send ahead of the first marker: nothing, a line that is
   shorter than the marker, or an empty line ended by a bare line feed. *)
Preambles(ps) ==
    IF Len(ps) = 1 /\ ps[1].kind = "field" /\ ps[1].payload = <<"a">>
    THEN {<<>>, <<"-">> \o CRLF, <<"-", "-">> \o CRLF, <<LF>>}
    ELSE {<<>>}

Bodies(ps) ==
    {Render(ps) \o e : e \in Epilogues(ps)} \cup {pre \o Render(ps) : pre \in Preambles(ps)}

(* Where the marker that closes part k starts: the bytes of the first k parts. *)
EndOfPartAt(ps, k) == Len(RenderParts(SubSeq(ps, 1, k)))

(* The parts whose closing marker has the chunk boundary at offset strictly inside. *)
SplitMarkers(ps, offset) ==
    {k \in 1..Len(ps) :
        EndOfPartAt(ps, k) < offset /\ offset < EndOfPartAt(ps, k) + Len(Marker)}

ContentTypes ==
    { <<"multipart/form-data", ";", " ", "boundary=">> \o Token,
      <<"multipart/form-data">> }

BIT_UPLOAD_DIR == <<>>

(* websUploadOpen, upload.c:400-411 *)
uploadDir == IF BIT_UPLOAD_DIR = <<>> THEN <<"/tmp">> ELSE BIT_UPLOAD_DIR

(***************************************************************************)
(* The state after construction: no upload recognised yet.                 *)
(***************************************************************************)
InitWp ==
    [uploadState |-> 0, boundary |-> Null, boundaryLen |-> 0, input |-> <<>>, servp |-> 0,
     id |-> Null, clientFilename |-> Null, tmpPath |-> Null, ufd |-> 0 - 1,
     currentFile |-> 0, files |-> {}, vars |-> {}, error |-> NoError]

InitOs ==
    [recs |-> <<>>, fds |-> <<>>, disk |-> <<>>, npaths |-> 0, freed |-> {},
     fault |-> "none"]

Init ==
    /\ wp = InitWp
    /\ os = InitOs
    /\ parts \in BodyParts
    /\ body \in Bodies(parts)
    /\ sent = 0
    /\ straddled = {}
    /\ pc = "start"
    /\ rc = 0
    /\ after = 0
    /\ nominal = TRUE

(***************************************************************************)
(* websUploadHandler, upload.c:36-57.  UploadHandler is the part behind    *)
(* the WEBS_UPLOAD test; upload tells whether the request has the flag.    *)
(***************************************************************************)
UploadHandler(m, contentType) ==
    LET at == FirstIn(contentType, 1, {"boundary="})
        m1 == [m EXCEPT !.wp.uploadState = HTTP_UPLOAD_BOUNDARY]
        m2 == IF at # 0
              THEN [m1 EXCEPT !.wp.boundary = <<"-", "-">> \o Drop(contentType, at),
                              !.wp.boundaryLen = Len(<<"-", "-">> \o Drop(contentType, at))]
              ELSE m1
    IN  IF m2.wp.boundaryLen = 0 \/ m2.wp.boundary = <<>>
        THEN [websError(m2, HTTP_CODE_BAD_REQUEST) EXCEPT !.rc = 0 - 1]
        ELSE [websSetVar(m2, <<"UPLOAD_DIR">>, uploadDir) EXCEPT !.rc = 0]

HandlerTo(r, upload) ==
    /\ wp' = IF upload THEN r.wp ELSE wp
    /\ os' = IF upload THEN r.os ELSE os
    /\ rc' = IF upload THEN r.rc ELSE 0
    /\ pc' = IF ~upload THEN "notUpload" ELSE IF r.rc < 0 THEN "failed" ELSE "idle"

websUploadHandler ==
    /\ pc = "start"
    /\ \E contentType \in ContentTypes, upload \in BOOLEAN :
         HandlerTo(UploadHandler(Machine(wp, os), contentType), upload)
    /\ UNCHANGED <<parts, body, sent, after, nominal, straddled>>

(***************************************************************************)
(* The caller appends the next chunk of the body to wp->input and calls    *)
(* websProcessUploadData.                                                  *)
(***************************************************************************)
Over(w) == w.error # NoError \/ w.uploadState = HTTP_UPLOAD_CONTENT_END

Deliver ==
    /\ pc = "idle"
    /\ sent < Len(body)
    /\ Over(wp) => after < MaxAfterError
    /\ \E n \in 1..(Len(body) - sent) :
         /\ wp' = [wp EXCEPT !.input = @ \o SubSeq(body, sent + 1, sent + n)]
         /\ sent' = sent + n
    /\ after' = IF Over(wp) THEN after + 1 ELSE after
    /\ straddled' = straddled \cup SplitMarkers(parts, sent)
    /\ pc' = "loop"
    /\ UNCHANGED <<os, parts, body, rc, nominal>>

(* One pass of the loop in upload state st; r is its outcome, rn the outcome had
   the environment answered as it normally does. *)
PassTo(r, rn) ==
    /\ wp' = r.wp
    /\ os' = r.os
    /\ rc' = r.rc
    /\ pc' = IF r.os.fault # "none" THEN "crashed" ELSE IF r.done THEN "exit" ELSE "loop"
    /\ nominal' = (nominal /\ r = rn)

Pass(st) ==
    /\ pc = "loop"
    /\ wp.uploadState = st
    /\ \E env \in EnvsOf(st) :
         PassTo(LoopPass(Machine(wp, os), env), LoopPass(Machine(wp, os), NominalEnv))
    /\ UNCHANGED <<parts, body, sent, after, straddled>>

PassBoundary == Pass(HTTP_UPLOAD_BOUNDARY)

PassHeader == Pass(HTTP_UPLOAD_CONTENT_HEADER)

PassData == Pass(HTTP_UPLOAD_CONTENT_DATA)

PassEnd == Pass(HTTP_UPLOAD_CONTENT_END)

(* upload.c:133: the loop is left, the buffer is compacted, the driver returns. *)
Return ==
    /\ pc = "exit"
    /\ wp' = ringqCompact(wp)
    /\ pc' = "idle"
    /\ UNCHANGED <<os, parts, body, sent, rc, after, nominal, straddled>>

(***************************************************************************)
(* websFreeUpload, upload.c:68-78: the request completes or aborts.        *)
(***************************************************************************)
FreeUpload(m) ==
    LET m1 == IF m.wp.currentFile # 0
              THEN [m EXCEPT !.os.freed = @ \cup {m.wp.currentFile}]
              ELSE m
        walked == {e.v : e \in m.wp.files}
    IN  IF walked \cap m1.os.freed # {}
        THEN [m1 EXCEPT !.os.fault = "useafterfree"]
        ELSE m1

websFreeUpload ==
    /\ pc = "idle"
    /\ LET r == FreeUpload(Machine(wp, os))
       IN  /\ wp' = r.wp
           /\ os' = r.os
    /\ pc' = "freed"
    /\ UNCHANGED <<parts, body, sent, rc, after, nominal, straddled>>

Next ==
    \/ websUploadHandler
    \/ Deliver
    \/ PassBoundary
    \/ PassHeader
    \/ PassData
    \/ PassEnd
    \/ Return
    \/ websFreeUpload

Spec == Init /\ [][Next]_vars


(***************************************************************************)
(* websProcessUploadData, upload.c:81-134, run to its return when the      *)
(* environment answers as it normally does.                                *)
(***************************************************************************)
RECURSIVE RunLoop(_)
RunLoop(m) ==
    IF m.done \/ m.os.fault # "none" THEN m ELSE RunLoop(LoopPass(m, NominalEnv))

websProcessUploadData(m) ==
    [RunLoop([m EXCEPT !.done = FALSE]) EXCEPT !.wp = ringqCompact(@)]

(* The session once websUploadHandler has accepted the request. *)
Accepted ==
    UploadHandler(Machine(InitWp, InitOs),
                  <<"multipart/form-data", ";", " ", "boundary=">> \o Token)

(* The whole body delivered as one chunk. *)
OneChunk(b) == websProcessUploadData([Accepted EXCEPT !.wp.input = b])

(***************************************************************************)
(* What the claims speak about.  nominal tells that so far the environment *)
(* answered as it normally does (zeroed allocations, no failed call): the  *)
(* statements that carry it are refuted without any help from a failure.   *)
(***************************************************************************)
FileKinds == {"file", "fileNoType"}

(* A well-formed body; the payloads that begin with a line feed are C11's. *)
ValidBody ==
    /\ \A k \in 1..Len(parts) : parts[k].kind \in ValidKinds
    /\ \A k \in 1..Len(parts) : parts[k].payload \notin LinePayloads
    /\ Take(body, Len(Render(parts))) = Render(parts)

AllDelivered == pc = "idle" /\ sent = Len(body)

OpenFds == {fd \in 1..Len(os.fds) : os.fds[fd].open}

(* In a valid body the i-th file record belongs to the i-th file part. *)
FilePartsUpTo(k) == {j \in 1..k : parts[j].kind \in FileKinds}

PartOfRecord(i) ==
    CHOOSE k \in 1..Len(parts) :
        parts[k].kind \in FileKinds /\ Cardinality(FilePartsUpTo(k)) = i

FileVarKeys(id) ==
    { <<"FILE_CLIENT_FILENAME_">> \o id, <<"FILE_CONTENT_TYPE_">> \o id,
      <<"FILE_FILENAME_">> \o id, <<"FILE_SIZE_">> \o id }

(* C1: for a valid body, however it is split into chunks, the published variables
   and the contents of the temp files at the end are those of delivering the body
   as one chunk. *)
C1_ChunkInvariance ==
    (AllDelivered /\ nominal /\ ValidBody) =>
        /\ wp.vars = OneChunk(body).wp.vars
        /\ os.disk = OneChunk(body).os.disk

(* C2: for a valid body under any chunking, the size recorded and published for a
   completed file part is the length of its payload: the CRLF before the marker is
   never counted, also when it was buffered in an earlier pass than the marker. *)
C2_FileSize ==
    (nominal /\ ValidBody) =>
        \A e \in wp.files :
            /\ os.recs[e.v].size = Len(parts[PartOfRecord(e.v)].payload)
            /\ HasKey(wp.vars, <<"FILE_SIZE_">> \o e.k)
            /\ Lookup(wp.vars, <<"FILE_SIZE_">> \o e.k) =
                   gstritoa(Len(parts[PartOfRecord(e.v)].payload))

(* C3: a part (file or plain field) whose closing marker was divided between two
   successive chunks ends exactly at the marker once the marker has arrived: no
   error is reported, a field holds its payload and a file holds its payload and
   no byte of the marker. *)
LastWithId(k) == \A j \in (k + 1)..Len(parts) : parts[j].id # parts[k].id

StraddledPartRight(k) ==
    IF parts[k].kind = "field"
    THEN /\ HasKey(wp.vars, <<parts[k].id>>)
         /\ Lookup(wp.vars, <<parts[k].id>>) = parts[k].payload
    ELSE LET i == Cardinality(FilePartsUpTo(k))
         IN  /\ i <= Len(os.disk)
             /\ os.disk[i] \in {parts[k].payload, parts[k].payload \o CRLF}
             /\ ~os.fds[i].open

C3_StraddledMarker ==
    (pc = "idle" /\ nominal /\ ValidBody) =>
        \A k \in straddled :
            (sent >= EndOfPartAt(parts, k) + Len(Marker) /\ LastWithId(k)) =>
                /\ wp.error = NoError
                /\ StraddledPartRight(k)

(* C4: an append that would take the file past BIT_LIMIT_UPLOAD is refused with
   'request too large', writes nothing and leaves the size alone; hence the size
   of a file part never decreases and never exceeds the ceiling. *)
(* The number of bytes the next pass over part data hands to writeToFile, -1 when
   it hands it none (upload.c:302-336). *)
PendingAppend(w) ==
    IF w.uploadState # HTTP_UPLOAD_CONTENT_DATA \/ w.clientFilename = Null
       \/ Len(w.input) < w.boundaryLen
    THEN 0 - 1
    ELSE IF getBoundary(w, w.input, Len(w.input)) = 0
    THEN Len(w.input) - (w.boundaryLen - 1)
    ELSE IF getBoundary(w, w.input, Len(w.input)) = 1
    THEN 0 - 1
    ELSE IF EndsInCRLF(Take(w.input, getBoundary(w, w.input, Len(w.input)) - 1))
    THEN getBoundary(w, w.input, Len(w.input)) - 3
    ELSE getBoundary(w, w.input, Len(w.input)) - 1

RefusedAppend ==
    (/\ pc = "loop"
     /\ wp.currentFile # 0
     /\ PendingAppend(wp) >= 0
     /\ os.recs[wp.currentFile].size + PendingAppend(wp) > BIT_LIMIT_UPLOAD)
    => (/\ rc' < 0
        /\ wp'.error = HTTP_CODE_REQUEST_TOO_LARGE
        /\ os'.disk = os.disk
        /\ os'.recs = os.recs)

SizeNeverDecreases ==
    \A i \in 1..Len(os.recs) : os'.recs[i].size >= os.recs[i].size

C4_SizeCeiling ==
    /\ [][RefusedAppend /\ SizeNeverDecreases]_vars
    /\ [](\A i \in 1..Len(os.recs) : os.recs[i].size <= BIT_LIMIT_UPLOAD)

(* C5: a Content-Disposition line with a filename attribute and no name attribute
   before it is refused with HTTP 400 before anything is created: no temp path is
   chosen, no handle is opened, no file record is allocated. *)
FilenameBeforeName(line) ==
    /\ Len(line) > 0
    /\ Lower(line[1]) = "content-disposition"
    /\ \E i \in 1..Len(line) :
         Lower(line[i]) = "filename" /\ \A j \in 1..(i - 1) : Lower(line[j]) # "name"

NextLineHasFilenameBeforeName ==
    /\ pc = "loop"
    /\ wp.uploadState = HTTP_UPLOAD_CONTENT_HEADER
    /\ gtok(wp.input, {LF}).last # 0
    /\ FilenameBeforeName(AfterTok(wp.input, gtok(wp.input, {LF})))

C5_FilenameWithoutName ==
    [][NextLineHasFilenameBeforeName =>
          /\ rc' < 0
          /\ wp'.error = HTTP_CODE_BAD_REQUEST
          /\ os' = os
          /\ wp'.tmpPath = wp.tmpPath
          /\ wp'.ufd = wp.ufd
          /\ wp'.currentFile = wp.currentFile]_vars

C5_Witness ==
    /\ pc = "exit"
    /\ rc < 0
    /\ wp.error = HTTP_CODE_BAD_REQUEST
    /\ wp.uploadState = HTTP_UPLOAD_CONTENT_HEADER
    /\ parts[1].kind \in {"noName", "nameAfter"}
    /\ wp.id = Null
    /\ os.npaths = 0

(* C6: at most one temp-file handle opened by the session is open at any time,
   whatever header lines arrive. *)
C6_OneHandle == nominal => Cardinality(OpenFds) <= 1

(* C7: between driver invocations the session holds a current file record exactly
   when its temp-file handle is open. *)
C7_FileIffHandle ==
    (pc = "idle" /\ nominal /\ ValidBody) => ((wp.currentFile # 0) <=> FdValid(os, wp.ufd))

(* C8: every handle the session opens is closed exactly once: never twice, and
   closed when the driver returns after a fatal error and after websFreeUpload. *)
C8_HandleLifecycle ==
    ValidBody =>
    /\ \A fd \in 1..Len(os.fds) : os.fds[fd].closes <= 1
    /\ (pc = "idle" /\ wp.error # NoError) => OpenFds = {}
    /\ pc = "freed" => \A fd \in 1..Len(os.fds) : ~os.fds[fd].open /\ os.fds[fd].closes = 1

(* C9: the upload state moves only along AwaitingBoundary -> AwaitingPartHeader or
   Ended, AwaitingPartHeader -> StreamingPartData, StreamingPartData ->
   AwaitingBoundary, Ended -> nothing, and no state other than AwaitingBoundary is
   entered before the boundary marker is set. *)
StateGraph ==
    { <<HTTP_UPLOAD_BOUNDARY, HTTP_UPLOAD_CONTENT_HEADER>>,
      <<HTTP_UPLOAD_BOUNDARY, HTTP_UPLOAD_CONTENT_END>>,
      <<HTTP_UPLOAD_CONTENT_HEADER, HTTP_UPLOAD_CONTENT_DATA>>,
      <<HTTP_UPLOAD_CONTENT_DATA, HTTP_UPLOAD_BOUNDARY>> }

C9_StateGraph ==
    [][/\ wp'.uploadState # wp.uploadState =>
            \/ <<wp.uploadState, wp'.uploadState>> \in StateGraph
            \/ pc = "start" /\ wp'.uploadState = HTTP_UPLOAD_BOUNDARY
       /\ wp'.uploadState = HTTP_UPLOAD_CONTENT_DATA /\ wp.uploadState # HTTP_UPLOAD_CONTENT_DATA =>
            /\ gtok(wp.input, {LF}).last # 0
            /\ StripCR(AfterTok(wp.input, gtok(wp.input, {LF}))) = <<>>
       /\ wp'.uploadState \notin {0, HTTP_UPLOAD_BOUNDARY} =>
            wp'.boundary # Null /\ wp'.boundaryLen > 0]_vars

C9_Witness ==
    /\ pc = "idle"
    /\ wp.uploadState = HTTP_UPLOAD_CONTENT_END
    /\ Len(parts) = 2
    /\ wp.error = NoError

(* C10: every file part that reaches its closing marker is finalized: its handle
   is closed and FILE_CLIENT_FILENAME_, FILE_CONTENT_TYPE_, FILE_FILENAME_ and
   FILE_SIZE_<id> are published, also when the marker is found at the very start
   of the buffered window. *)
C10_FilePartFinalized ==
    [][(/\ pc = "loop"
        /\ nominal'
        /\ wp.uploadState = HTTP_UPLOAD_CONTENT_DATA
        /\ wp.clientFilename # Null
        /\ wp'.uploadState = HTTP_UPLOAD_BOUNDARY)
       => (/\ ~FdValid(os', wp.ufd)
           /\ \A key \in FileVarKeys(wp.id) : HasKey(wp'.vars, key))]_vars

(* C11: a body of plain-field parts closed by the terminating marker and delivered
   as one chunk publishes every field under its id with exactly its payload, the
   CRLF before the next marker left out, and leaves the session in
   HTTP_UPLOAD_CONTENT_END. *)
FieldsOnly ==
    /\ \A k \in 1..Len(parts) : parts[k].kind = "field"
    /\ body = Render(parts)

C11_OneChunkFields ==
    (AllDelivered /\ FieldsOnly /\ wp = OneChunk(body).wp) =>
        /\ wp.uploadState = HTTP_UPLOAD_CONTENT_END
        /\ wp.error = NoError
        /\ \A k \in 1..Len(parts) :
             LastWithId(k) =>
                 /\ HasKey(wp.vars, <<parts[k].id>>)
                 /\ Lookup(wp.vars, <<parts[k].id>>) = parts[k].payload

(* The same statement for payloads whose first byte is not a line feed. *)
C11_OneChunkFieldsNoLeadingLF ==
    (\A k \in 1..Len(parts) : parts[k].payload \notin LinePayloads) => C11_OneChunkFields

(* C12: HTTP_UPLOAD_CONTENT_END is terminal: once the session is in it, no step of
   a later invocation of websProcessUploadData takes a byte from the buffer,
   changes the state, writes to or opens a file, or publishes a variable,
   whatever has been buffered. *)
C12_EndedTerminal ==
    [][(wp.uploadState = HTTP_UPLOAD_CONTENT_END /\ pc' # "freed") =>
          /\ wp'.uploadState = HTTP_UPLOAD_CONTENT_END
          /\ Len(wp'.input) >= Len(wp.input)
          /\ Take(wp'.input, Len(wp.input)) = wp.input
          /\ os' = os
          /\ wp'.vars = wp.vars
          /\ wp'.files = wp.files]_vars

C12_Witness ==
    /\ pc = "idle"
    /\ wp.uploadState = HTTP_UPLOAD_CONTENT_END
    /\ after > 0
    /\ wp.input = Marker \o CRLF
    /\ sent = Len(body)

(* C13: every invocation of websProcessUploadData comes to an end, whatever the
   state and the buffered bytes: a pass of the loop that stays in the loop has
   taken bytes from the buffer or changed the state (so the rank below falls at
   every pass), the invocation returns to its caller instead of faulting, and the
   buffer is compacted whenever it has returned. *)
Rank(w) == 2 * Len(w.input) + (IF w.uploadState = HTTP_UPLOAD_CONTENT_DATA THEN 1 ELSE 0)

LoopProgress ==
    (pc = "loop" /\ pc' = "loop") =>
        /\ Len(wp'.input) < Len(wp.input) \/ wp'.uploadState # wp.uploadState
        /\ Rank(wp') < Rank(wp)

Compacted == pc = "idle" => wp.servp = 0

C13_LoopAndCompaction == [][LoopProgress]_vars /\ []Compacted

C13_Terminates == C13_LoopAndCompaction /\ [](pc # "crashed")

(* C14: holdback.  When a pass over part data finds at least boundaryLen bytes
   buffered and no marker among them, the last boundaryLen-1 bytes of the window
   stay buffered (not written, not published, not consumed), the state stays
   HTTP_UPLOAD_CONTENT_DATA and the driver leaves its loop to await more input;
   for file parts and for plain fields alike. *)
NoMarkerInWindow ==
    /\ pc = "loop"
    /\ wp.uploadState = HTTP_UPLOAD_CONTENT_DATA
    /\ Len(wp.input) >= wp.boundaryLen
    /\ getBoundary(wp, wp.input, Len(wp.input)) = 0

Tail_(s, n) == SubSeq(s, Len(s) - n + 1, Len(s))

(* What the pass may have appended to the temp files: bytes of the window before
   the held-back tail, nothing else. *)
OnlyHeadWritten ==
    /\ Len(os'.disk) = Len(os.disk)
    /\ \A i \in 1..Len(os.disk) :
         \E n \in 0..(Len(wp.input) - (wp.boundaryLen - 1)) :
             os'.disk[i] \in {os.disk[i], os.disk[i] \o Take(wp.input, n)}

HeldBack ==
    /\ wp'.uploadState = HTTP_UPLOAD_CONTENT_DATA
    /\ Len(wp'.input) >= wp.boundaryLen - 1
    /\ Tail_(wp'.input, wp.boundaryLen - 1) = Tail_(wp.input, wp.boundaryLen - 1)
    /\ wp'.vars = wp.vars
    /\ OnlyHeadWritten
    /\ pc' = "exit"

C14_Holdback == [][NoMarkerInWindow => HeldBack]_vars

(* The same statement for file parts alone. *)
C14_HoldbackFilePart ==
    [][(NoMarkerInWindow /\ wp.clientFilename # Null /\ wp.currentFile # 0) => HeldBack]_vars

(* C15: nothing partial is published.  At every point of every run of a valid
   body the variable map holds a field value or FILE_* entries only for a part
   whose closing marker has arrived in full, and a field's value is the whole
   payload of such a part. *)
MarkerReceived(k) == sent >= EndOfPartAt(parts, k) + Len(Marker)

Ids == {parts[k].id : k \in 1..Len(parts)}

C15_NoPartialPublish ==
    ValidBody =>
        \A id \in Ids :
            /\ HasKey(wp.vars, <<id>>) =>
                   \E k \in 1..Len(parts) :
                       /\ parts[k].id = id
                       /\ parts[k].kind = "field"
                       /\ MarkerReceived(k)
                       /\ Lookup(wp.vars, <<id>>) = parts[k].payload
            /\ \A key \in FileVarKeys(<<id>>) :
                   HasKey(wp.vars, key) =>
                       \E k \in 1..Len(parts) :
                           /\ parts[k].id = id
                           /\ parts[k].kind \in FileKinds
                           /\ MarkerReceived(k)

(* The part of the statement that speaks of FILE_* entries. *)
C15_NoPartialFilePublish ==
    ValidBody =>
        \A id \in Ids :
            \A key \in FileVarKeys(<<id>>) :
                HasKey(wp.vars, key) =>
                    \E k \in 1..Len(parts) :
                        /\ parts[k].id = id
                        /\ parts[k].kind \in FileKinds
                        /\ MarkerReceived(k)

(* C16: no recovery after a failure.  Once an invocation has reported an error,
   no step of a later invocation of websProcessUploadData takes bytes from the
   buffer, moves the upload state, writes to or opens a file, or publishes a
   variable. *)
C16_NoRecovery ==
    [][(wp.error # NoError /\ pc' # "freed") =>
          /\ Len(wp'.input) >= Len(wp.input)
          /\ Take(wp'.input, Len(wp.input)) = wp.input
          /\ wp'.uploadState = wp.uploadState
          /\ os'.disk = os.disk
          /\ os'.fds = os.fds
          /\ wp'.vars = wp.vars]_vars

(* C17: in HTTP_UPLOAD_BOUNDARY, for every complete line: a line that does not
   begin with the whole marker (a line shorter than the marker included) is
   answered with HTTP 400 and the state stays; the marker followed by exactly
   "--" moves the state to HTTP_UPLOAD_CONTENT_END; every other line that begins
   with the marker moves it to HTTP_UPLOAD_CONTENT_HEADER. *)
(* The line the driver hands to processContentBoundary once it is complete: the
   bytes before the line feed that ends it, without the carriage return that may
   precede the line feed. *)
BoundaryLineNext ==
    /\ pc = "loop"
    /\ wp.uploadState = HTTP_UPLOAD_BOUNDARY
    /\ gtok(wp.input, {LF}).last # 0

NextLine == StripCR(AfterTok(wp.input, gtok(wp.input, {LF})))

BoundaryLineAnswer(line) ==
    IF Len(line) < wp.boundaryLen \/ SubSeq(line, 1, wp.boundaryLen) # wp.boundary
    THEN /\ rc' < 0
         /\ wp'.error = HTTP_CODE_BAD_REQUEST
         /\ wp'.uploadState = HTTP_UPLOAD_BOUNDARY
    ELSE IF line = wp.boundary \o <<"-", "-">>
    THEN wp'.uploadState = HTTP_UPLOAD_CONTENT_END /\ wp'.error = wp.error
    ELSE wp'.uploadState = HTTP_UPLOAD_CONTENT_HEADER /\ wp'.error = wp.error

HasLine(input) == FirstIn(input, 1, {LF}) # 0

CannotProgress(w) ==
    \/ /\ w.uploadState \in {HTTP_UPLOAD_BOUNDARY, HTTP_UPLOAD_CONTENT_HEADER}
       /\ ~HasLine(w.input)
    \/ /\ w.uploadState = HTTP_UPLOAD_CONTENT_DATA
       /\ Len(w.input) < w.boundaryLen

Suspends ==
    (pc = "loop" /\ CannotProgress(wp)) =>
        /\ pc' = "exit"
        /\ wp' = wp
        /\ os' = os

KeepsProcessing ==
    (pc = "loop" /\ pc' = "exit" /\ wp'.error = NoError) =>
        \/ wp'.uploadState = HTTP_UPLOAD_CONTENT_END
        \/ CannotProgress(wp')

C18_SuspendsUnchanged == [][Suspends]_vars

C18_Suspension == [][Suspends /\ KeepsProcessing]_vars

(* C19: release safety.  Whatever parts have been decoded, websFreeUpload never
   reads a file record it has already released: when it frees wp->currentFile and
   then walks wp->files, the record of wp->currentFile is not among the records
   of wp->files. *)
FilesRecords == {e.v : e \in wp.files}

C19_ReleaseSafety ==
    (nominal /\ ValidBody) =>
        /\ pc = "idle" => (wp.currentFile = 0 \/ wp.currentFile \notin FilesRecords)
        /\ pc = "freed" => (os.fault # "useafterfree" /\ os.freed \cap FilesRecords = {})

(* C20: field identity.  Whatever a part publishes (its field value or its
   FILE_* entries) is keyed by the name its own Content-Disposition line
   declares: when a pass is about to publish part data, wp->id is that name; a
   part that declares no name is not published under a null id nor under the id
   an earlier part left behind. *)
(* The part whose bytes the read pointer is in. *)
PartsAhead == {k \in 1..Len(parts) : sent - Len(wp.input) <= EndOfPartAt(parts, k)}

DeclaresName(k) == parts[k].kind # "noDisposition"

(* upload.c:302-355: the next pass hands the buffered part data to websSetVar or
   to defineUploadVars. *)
WillPublish(w) ==
    /\ w.uploadState = HTTP_UPLOAD_CONTENT_DATA
    /\ Len(w.input) >= w.boundaryLen
    /\ \/ getBoundary(w, w.input, Len(w.input)) > 1
       \/ getBoundary(w, w.input, Len(w.input)) = 0 /\ w.clientFilename = Null

C20_FieldIdentity ==
    (/\ pc = "loop"
     /\ Take(body, Len(Render(parts))) = Render(parts)
     /\ PartsAhead # {}
     /\ WillPublish(wp))
    => (/\ DeclaresName(Min(PartsAhead))
        /\ wp.id = <<parts[Min(PartsAhead)].id>>)

(* The same statement for the bodies all of whose parts declare a name. *)
C20_FieldIdentityNamedParts == ValidBody => C20_FieldIdentity

(* C21: file-path precondition.  Whenever the next pass routes a Content-Type
   value or part data to the file path (wp->clientFilename is set), the session
   holds an open temp-file handle and a current file record, both made by the
   filename attribute that set wp->clientFilename and wp->tmpPath: writeToFile is
   never reached with a closed handle, without a record, or with the record of an
   earlier part. *)
ContentTypeLineNext ==
    /\ wp.uploadState = HTTP_UPLOAD_CONTENT_HEADER
    /\ gtok(wp.input, {LF}).last # 0
    /\ NextLine # <<>>
    /\ gcaselesseq(AfterTok(NextLine, gtok(NextLine, {":", " "})), <<"Content-Type">>)

RoutedToFile ==
    /\ pc = "loop"
    /\ wp.clientFilename # Null
    /\ ContentTypeLineNext \/ PendingAppend(wp) >= 0

FileOfThisPart ==
    /\ FdValid(os, wp.ufd)
    /\ wp.currentFile # 0
    /\ os.recs[wp.currentFile].filename = wp.tmpPath
    /\ PathName(os.fds[wp.ufd].path) = wp.tmpPath
    /\ os.recs[wp.currentFile].clientFilename = wp.clientFilename

C21_FilePathPrecondition == RoutedToFile => FileOfThisPart

(* The same statement for the invocations made before any error was reported. *)
C21_FilePathBeforeError == (wp.error = NoError /\ RoutedToFile) => FileOfThisPart

====
